---- MODULE Spec2Model ----
(***************************************************************************)
(* Model of the tic-tac-toe engine of src/src/lib.rs: the Board struct,    *)
(* make_move / undo_move / change_turn / change_board_state, and the       *)
(* minimax search behind get_best_move.                                    *)
(***************************************************************************)
EXTENDS Integers, Sequences, FiniteSets, TLC

(* enum Player, lib.rs 14-18 *)
X == "X"
O == "O"
EMPTY == "EMPTY"
Player == {X, O, EMPTY}

(* enum State, lib.rs 6-10 *)
DRAW == "DRAW"
RESULTED == "RESULTED"
INPROGRESS == "INPROGRESS"
State == {DRAW, RESULTED, INPROGRESS}

(* enum Difficulty, lib.rs 22-26 *)
EASY == "EASY"
MEDIUM == "MEDIUM"
DIFFICULT == "DIFFICULT"
Difficulty == {EASY, MEDIUM, DIFFICULT}

(* The board has cells 0..8; make_move rejects move_position > LastCell    *)
(* (lib.rs 63).                                                            *)
LastCell == 8
Cells == 0..LastCell

(* Bounds of the model. *)
(* The positions passed to make_move by a caller are 0..MaxPosition. *)
MaxPosition == 9
(* The first successful move of a game goes to a cell in 0..MaxOpening. *)
MaxOpening == 0
(* At most MaxOvertime moves are played after status has left INPROGRESS. *)
MaxOvertime == 1
(* Against the engine, the other side opens with a cell in 0..MaxFreeOpening. *)
MaxFreeOpening == 4
(* Where the host asks for moves at any point of a game, the n-th move of  *)
(* the game (n = 0, 1, ...) goes to a cell in 0..n+MaxSpread, and a search *)
(* is asked for with at most MaxSearchCells cells left to play.            *)
MaxSpread == 1
MaxSearchCells == 7
(* Where the search is checked to come to its end, it is asked for with at *)
(* most MaxFairCells cells left to play.                                   *)
MaxFairCells == 4

VARIABLES
    matrix, moves, status, turn, winner, difficulty,  \* the fields of Board
    start_player,  \* the start_player argument of Board::new
    ret,           \* what the last call returned to the caller
    parity,        \* successful make_move calls of the host, less those undone, mod 2
    overtime,      \* moves in the history that were played on a finished game
    trail,         \* the board as it was before each move of the history
    stack,         \* the frames of a running get_best_move / minimax
    retval,        \* the score the last minimax call returned to its caller
    saved,         \* the board as it was when the running search was called
    scores,        \* the candidates get_best_move has scored, each with its score
    free           \* the sides that played a move get_best_move did not choose

board_vars == <<matrix, moves, status, turn, winner, difficulty>>
vars == <<matrix, moves, status, turn, winner, difficulty, start_player, ret,
          parity, overtime, trail, stack, retval, saved, scores, free>>

(* struct Board, lib.rs 30-37: the six fields as one record. *)
Board == [matrix |-> matrix, moves |-> moves, status |-> status,
          turn |-> turn, winner |-> winner, difficulty |-> difficulty]

(* Board::new, lib.rs 42-54 *)
new(sp, d) == [matrix |-> [i \in Cells |-> EMPTY], moves |-> <<>>,
               status |-> INPROGRESS, turn |-> sp, winner |-> EMPTY,
               difficulty |-> d]

(* Vec::contains on the history, lib.rs 65; contains_but_last is a faulty   *)
(* variant that misses the last entry.                                     *)
contains_but_last(s, p) == \E i \in 1..(Len(s) - 1) : s[i] = p
contains(s, p) == \E i \in 1..Len(s) : s[i] = p

(* Board::change_turn, lib.rs 83-89; change_turn_stuck is a faulty variant  *)
(* without the arm for O.                                                   *)
change_turn_stuck(b) ==
    [b EXCEPT !.turn = CASE b.turn = X -> O
                         [] OTHER -> b.turn]
change_turn(b) ==
    [b EXCEPT !.turn = CASE b.turn = X -> O
                         [] b.turn = O -> X
                         [] OTHER -> b.turn]

(* Board::change_board_state, lib.rs 99-116: the four line tests for the    *)
(* cell move_position of matrix m.                                          *)
row_complete(m, move_position) ==
    LET row == move_position \div 3 IN
    /\ m[move_position] = m[row * 3]
    /\ m[row * 3] = m[row * 3 + 1]
    /\ m[row * 3 + 1] = m[row * 3 + 2]

col_complete(m, move_position) ==
    LET col == move_position % 3 IN
    /\ m[move_position] = m[col]
    /\ m[col] = m[col + 3]
    /\ m[col + 3] = m[col + 6]

main_diag_complete(m, move_position) ==
    /\ m[move_position] = m[0]
    /\ m[0] = m[4]
    /\ m[4] = m[8]

(* sec_diag_missed is a faulty variant that never sees the diagonal. *)
sec_diag_missed(m, move_position) == FALSE
sec_diag_complete(m, move_position) ==
    /\ m[move_position] = m[2]
    /\ m[2] = m[4]
    /\ m[4] = m[6]

(* Board::change_board_state, lib.rs 91-126 *)
change_board_state(b) ==
    LET len == Len(b.moves) IN
    IF len = 0 THEN b
    ELSE
      LET move_position == b.moves[len]
          m == b.matrix
      IN IF \/ row_complete(m, move_position)
            \/ col_complete(m, move_position)
            \/ main_diag_complete(m, move_position)
            \/ sec_diag_complete(m, move_position)
         THEN [b EXCEPT !.status = RESULTED, !.winner = m[move_position]]
         ELSE IF Len(b.moves) >= 9
         THEN [b EXCEPT !.status = DRAW]
         ELSE [b EXCEPT !.status = INPROGRESS]

(* The two errors of make_move, lib.rs 64 and 66. *)
IllegalPosition == "Illegal Position Supplied. Try Again."
PositionFilled == "Position Already Filled. Try Again"

(* Board::make_move, lib.rs 64 and 66: Err(..) is returned with the board   *)
(* as it is; reject_after_turn is a faulty variant that changes the turn    *)
(* first.                                                                   *)
reject_after_turn(b, error) == [board |-> change_turn(b), result |-> error]
reject(b, error) == [board |-> b, result |-> error]

(* Board::make_move, lib.rs 62-74: the board after the call and its result. *)
make_move(b, move_position) ==
    IF move_position > LastCell
    THEN reject(b, IllegalPosition)
    ELSE IF contains(b.moves, move_position)
    THEN reject(b, PositionFilled)
    ELSE [board |-> change_board_state(change_turn(
                       [b EXCEPT !.matrix[move_position] = b.turn,
                                 !.moves = Append(b.moves, move_position)])),
          result |-> "Ok"]

(* The panic of Option::unwrap on None, lib.rs 77. *)
PANIC == "panic: unwrap on None"

(* Vec::pop on the history, lib.rs 77: the history without its last entry. *)
pop(s) == SubSeq(s, 1, Len(s) - 1)

(* Board::undo_move, lib.rs 76-81; undo_move_keeps_status is a faulty       *)
(* variant without the call of change_board_state, undo_move_keeps_cell one *)
(* that does not clear the cell.                                            *)
undo_move_keeps_cell(b) ==
    IF Len(b.moves) = 0 THEN PANIC
    ELSE change_board_state(change_turn([b EXCEPT !.moves = pop(b.moves)]))
undo_move_keeps_status(b) ==
    IF Len(b.moves) = 0 THEN PANIC
    ELSE LET move_position == b.moves[Len(b.moves)] IN
         change_turn([b EXCEPT !.moves = pop(b.moves),
                               !.matrix[move_position] = EMPTY])
undo_move(b) ==
    IF Len(b.moves) = 0 THEN PANIC
    ELSE LET move_position == b.moves[Len(b.moves)] IN
         change_board_state(change_turn(
             [b EXCEPT !.moves = pop(b.moves),
                       !.matrix[move_position] = EMPTY]))

(* find_available_moves, lib.rs 181-191: the EMPTY cells in ascending order. *)
(* every_cell is a faulty variant without the test for EMPTY.               *)
CellSeq == [i \in 1..(LastCell + 1) |-> i - 1]
every_cell(b) == CellSeq
find_available_moves(b) == SelectSeq(CellSeq, LAMBDA index : b.matrix[index] = EMPTY)

(* minimax, lib.rs 194-196: the score of a finished board;                  *)
(* terminal_score_flipped is a faulty variant with the two scores swapped.  *)
terminal_score_flipped(b, mover) ==
    IF b.status = RESULTED
    THEN (IF b.winner # mover THEN -1 ELSE 1)
    ELSE 0
terminal_score(b, mover) ==
    IF b.status = RESULTED
    THEN (IF b.winner # mover THEN 1 ELSE -1)
    ELSE 0

(* minimax, lib.rs 198-199: the frame of a minimax call that enters its     *)
(* loop: the perspective player, is_max, best_score, the candidates of      *)
(* line 200 and the position i of the loop in them.                         *)
minimax_frame(b, mover) ==
    LET is_max == b.turn # mover IN
    [fn |-> "minimax", mover |-> mover, is_max |-> is_max,
     best_score |-> IF is_max THEN -1000 ELSE 1000, best_move |-> 0,
     avail |-> find_available_moves(b), i |-> 1]

(* Board::get_best_move, lib.rs 155-157: the frame of a get_best_move call. *)
best_move_frame(b) ==
    [fn |-> "get_best_move", mover |-> EMPTY, is_max |-> TRUE,
     best_score |-> -1000, best_move |-> 0,
     avail |-> find_available_moves(b), i |-> 1]

(* The perspective player a frame passes to minimax for the candidate it    *)
(* has just applied: lib.rs 159 (get_best_move) and 202 (minimax).          *)
(* perspective_of_mover is a faulty variant in which get_best_move passes   *)
(* the turn as it was before the candidate.                                 *)
perspective_of_mover(f, made) ==
    IF f.fn = "get_best_move" THEN change_turn(made).turn ELSE f.mover
perspective(f, made) == IF f.fn = "get_best_move" THEN made.turn ELSE f.mover

(* The frame after the candidate's score came back: lib.rs 160-163          *)
(* (get_best_move) and 203-208 (minimax), and the loop moving on.           *)
(* take_score_last_best is a faulty variant in which an equal score         *)
(* replaces the best move of get_best_move, take_score_swapped one in which *)
(* minimax compares the wrong way round.                                    *)
take_score_swapped(f, score) ==
    IF f.fn = "get_best_move"
    THEN IF score > f.best_score
         THEN [f EXCEPT !.best_score = score, !.best_move = f.avail[f.i], !.i = f.i + 1]
         ELSE [f EXCEPT !.i = f.i + 1]
    ELSE IF (f.is_max /\ score < f.best_score) \/ (~f.is_max /\ score > f.best_score)
         THEN [f EXCEPT !.best_score = score, !.i = f.i + 1]
         ELSE [f EXCEPT !.i = f.i + 1]
take_score_last_best(f, score) ==
    IF f.fn = "get_best_move"
    THEN IF score >= f.best_score
         THEN [f EXCEPT !.best_score = score, !.best_move = f.avail[f.i], !.i = f.i + 1]
         ELSE [f EXCEPT !.i = f.i + 1]
    ELSE IF (f.is_max /\ score > f.best_score) \/ (~f.is_max /\ score < f.best_score)
         THEN [f EXCEPT !.best_score = score, !.i = f.i + 1]
         ELSE [f EXCEPT !.i = f.i + 1]
take_score(f, score) ==
    IF f.fn = "get_best_move"
    THEN IF score > f.best_score
         THEN [f EXCEPT !.best_score = score, !.best_move = f.avail[f.i], !.i = f.i + 1]
         ELSE [f EXCEPT !.i = f.i + 1]
    ELSE IF (f.is_max /\ score > f.best_score) \/ (~f.is_max /\ score < f.best_score)
         THEN [f EXCEPT !.best_score = score, !.i = f.i + 1]
         ELSE [f EXCEPT !.i = f.i + 1]

Top == stack[Len(stack)]

SetBoard(b) ==
    /\ matrix' = b.matrix
    /\ moves' = b.moves
    /\ status' = b.status
    /\ turn' = b.turn
    /\ winner' = b.winner
    /\ difficulty' = b.difficulty

(* The view of a board that undo_move is said to restore. *)
Snapshot(b) == [matrix |-> b.matrix, moves |-> b.moves, turn |-> b.turn,
                status |-> b.status]

(* Board::new called by the host, lib.rs 42-54. *)
Construct(sp, d) ==
    /\ matrix = new(sp, d).matrix
    /\ moves = new(sp, d).moves
    /\ status = new(sp, d).status
    /\ turn = new(sp, d).turn
    /\ winner = new(sp, d).winner
    /\ difficulty = new(sp, d).difficulty
    /\ start_player = sp
    /\ ret = [op |-> "new", val |-> 0]
    /\ parity = 0
    /\ overtime = 0
    /\ trail = <<>>
    /\ stack = <<>>
    /\ retval = <<>>
    /\ saved = <<>>
    /\ scores = <<>>
    /\ free = {}

(* The positions a caller passes: any of 0..MaxPosition, the opening move   *)
(* of a game within 0..MaxOpening.                                          *)
Positions ==
    IF moves = <<>> THEN (0..MaxOpening) \cup ((LastCell + 1)..MaxPosition)
    ELSE 0..MaxPosition

(* A call of make_move by the host, lib.rs 62-74. A call that returns an    *)
(* error leaves every variable as it is; ret keeps the last value a call    *)
(* returned with Ok or with a move.                                         *)
Call_make_move(p) ==
    LET r == make_move(Board, p)
        ok == r.result = "Ok"
        late == ok /\ status # INPROGRESS
    IN /\ late => overtime < MaxOvertime
       /\ SetBoard(r.board)
       /\ ret' = IF ok THEN [op |-> "make_move", val |-> p] ELSE ret
       /\ parity' = IF ok THEN 1 - parity ELSE parity
       /\ overtime' = IF late THEN overtime + 1 ELSE overtime

MakeMove ==
    /\ stack = <<>>
    /\ \E p \in Positions : Call_make_move(p)
    /\ UNCHANGED <<start_player, trail, stack, retval, saved, scores, free>>

(* Board::undo_move called on the board, lib.rs 76-81. *)
Do_undo_move ==
    /\ moves # <<>>
    /\ SetBoard(undo_move(Board))

(* A call of Board::get_best_move by the host, lib.rs 154-157: with no      *)
(* candidate the loop is skipped and best_move returned (line 167).         *)
Call_get_best_move ==
    LET f == best_move_frame(Board) IN
    /\ saved' = <<Board>>
    /\ scores' = <<>>
    /\ retval' = <<>>
    /\ IF f.avail = <<>>
       THEN /\ stack' = <<>>
            /\ ret' = [op |-> "get_best_move", val |-> f.best_move]
       ELSE /\ stack' = <<f>>
            /\ ret' = [op |-> "searching", val |-> 0]
    /\ UNCHANGED <<board_vars, start_player, parity, overtime, trail, free>>

(* The search applies its next candidate and calls minimax on the board,    *)
(* lib.rs 158-159 and 201-202; minimax returns at once on a finished board  *)
(* (194-196) or with no candidate (200, 212), else it enters its loop.      *)
SearchApply ==
    /\ stack # <<>>
    /\ retval = <<>>
    /\ LET f == Top
           made == make_move(Board, f.avail[f.i]).board
           mover == perspective(f, made)
           g == minimax_frame(made, mover)
       IN /\ SetBoard(made)
          /\ IF made.status # INPROGRESS
             THEN /\ retval' = <<terminal_score(made, mover)>>
                  /\ UNCHANGED stack
             ELSE IF g.avail = <<>>
             THEN /\ retval' = <<g.best_score>>
                  /\ UNCHANGED stack
             ELSE /\ retval' = <<>>
                  /\ stack' = Append(stack, g)
    /\ UNCHANGED <<start_player, ret, parity, overtime, trail, saved, scores, free>>

(* The score came back: the frame takes it, undoes the candidate (lib.rs    *)
(* 160-164, 203-209) and, after the last candidate, returns: minimax its    *)
(* best_score (212), get_best_move its best_move to the host (167).         *)
SearchUndo ==
    /\ stack # <<>>
    /\ retval # <<>>
    /\ Do_undo_move
    /\ LET f == take_score(Top, retval[1]) IN
       IF f.i <= Len(f.avail)
       THEN /\ stack' = [stack EXCEPT ![Len(stack)] = f]
            /\ retval' = <<>>
            /\ UNCHANGED ret
       ELSE IF f.fn = "get_best_move"
       THEN /\ stack' = pop(stack)
            /\ retval' = <<>>
            /\ ret' = [op |-> "get_best_move", val |-> f.best_move]
       ELSE /\ stack' = pop(stack)
            /\ retval' = <<f.best_score>>
            /\ UNCHANGED ret
    /\ scores' = IF Top.fn = "get_best_move"
                 THEN Append(scores, [mv |-> Top.avail[Top.i], score |-> retval[1]])
                 ELSE scores
    /\ UNCHANGED <<start_player, parity, overtime, trail, saved, free>>

(* The engine's turn of the host: it asks get_best_move for a move ...      *)
EngineThink ==
    /\ stack = <<>>
    /\ status = INPROGRESS
    /\ ret.op # "get_best_move"
    /\ Call_get_best_move

(* ... and plays the move it got with make_move. *)
EnginePlay ==
    /\ stack = <<>>
    /\ status = INPROGRESS
    /\ ret.op = "get_best_move"
    /\ Call_make_move(ret.val)
    /\ UNCHANGED <<start_player, trail, stack, retval, saved, scores, free>>

(* The other side's turn: any cell, while the game is in progress. Only one *)
(* side plays moves of its own; its opening is within 0..MaxFreeOpening.    *)
FreePlay ==
    /\ stack = <<>>
    /\ status = INPROGRESS
    /\ ret.op # "get_best_move"
    /\ free \subseteq {turn}
    /\ \E p \in (IF moves = <<>> THEN 0..MaxFreeOpening ELSE Cells) : Call_make_move(p)
    /\ free' = free \cup {turn}
    /\ UNCHANGED <<start_player, trail, stack, retval, saved, scores>>

(* The host plays a move and the model keeps the board it played it on. *)
PlayMove ==
    /\ stack = <<>>
    /\ ret.op # "undo_move"
    /\ \E p \in Positions :
           /\ make_move(Board, p).result = "Ok"
           /\ Call_make_move(p)
    /\ trail' = Append(trail, Snapshot(Board))
    /\ UNCHANGED <<start_player, stack, retval, saved, scores, free>>

(* undo_move called on its own, lib.rs 76-81, to take the last move back. *)
UndoMove ==
    /\ stack = <<>>
    /\ trail # <<>>
    /\ Do_undo_move
    /\ ret' = [op |-> "undo_move", val |-> trail[Len(trail)]]
    /\ trail' = pop(trail)
    /\ parity' = 1 - parity
    /\ overtime' = IF trail[Len(trail)].status # INPROGRESS THEN overtime - 1 ELSE overtime
    /\ UNCHANGED <<start_player, stack, retval, saved, scores, free>>

(* The boards the host constructs for a game of make_move calls. *)
Games == {<<X, DIFFICULT>>, <<O, MEDIUM>>, <<EMPTY, EASY>>}

Init == \E g \in Games : Construct(g[1], g[2])

Next == MakeMove

Spec == Init /\ [][Next]_vars

NextUndo == PlayMove \/ UndoMove

SpecUndo == Init /\ [][NextUndo]_vars

InitEngine == Construct(X, DIFFICULT)

NextEngine == EngineThink \/ SearchApply \/ SearchUndo \/ EnginePlay \/ FreePlay

SpecEngine == InitEngine /\ [][NextEngine]_vars

(* The random draws of the model: gen_range(0, 100) of lib.rs 146 gives one *)
(* of these, on both sides of the test of line 147.                         *)
RandomNums == {0, 74, 75, 99}

(* Board::get_random_move, lib.rs 137-142: the cell at move_index of the    *)
(* available moves (Rust indexes from 0).                                   *)
get_random_move(b, move_index) == find_available_moves(b)[move_index + 1]

(* A call of Board::get_random_move by the host, lib.rs 137-142:            *)
(* gen_range(0, len) draws any of 0..len-1 and panics when len is 0.        *)
Call_get_random_move ==
    LET available_moves == find_available_moves(Board) IN
    /\ IF Len(available_moves) = 0
       THEN ret' = [op |-> "panic", val |-> 0]
       ELSE \E move_index \in 0..(Len(available_moves) - 1) :
                ret' = [op |-> "get_random_move",
                        val |-> get_random_move(Board, move_index)]
    /\ saved' = <<Board>>
    /\ scores' = <<>>
    /\ UNCHANGED <<board_vars, start_player, parity, overtime, trail, stack,
                   retval, free>>

(* A call of Board::get_medium_move by the host, lib.rs 144-152. *)
Call_get_medium_move ==
    \E random_num \in RandomNums :
        IF random_num < 75 THEN Call_get_best_move ELSE Call_get_random_move

(* A call of Board::get_next_move by the host, lib.rs 129-135. *)
Call_get_next_move ==
    CASE difficulty = EASY -> Call_get_random_move
      [] difficulty = MEDIUM -> Call_get_medium_move
      [] difficulty = DIFFICULT -> Call_get_best_move

(* The cells left to play: a search is no deeper than this. *)
CellsLeft == (LastCell + 1) - Len(moves)

(* The host plays a move at any point of a game, finished or not. *)
HostMove ==
    /\ stack = <<>>
    /\ \E p \in {c \in Cells : c <= Len(moves) + MaxSpread} :
           /\ make_move(Board, p).result = "Ok"
           /\ Call_make_move(p)
    /\ UNCHANGED <<start_player, trail, stack, retval, saved, scores, free>>

(* The host asks for a move at any point of a game, finished or not. *)
HostBestMove ==
    /\ stack = <<>>
    /\ CellsLeft <= MaxSearchCells
    /\ Call_get_best_move

HostRandomMove ==
    /\ stack = <<>>
    /\ Call_get_random_move

HostMediumMove ==
    /\ stack = <<>>
    /\ CellsLeft <= MaxSearchCells
    /\ Call_get_medium_move

HostNextMove ==
    /\ stack = <<>>
    /\ CellsLeft <= MaxSearchCells
    /\ Call_get_next_move

NextSearch ==
    \/ HostMove
    \/ HostBestMove
    \/ HostRandomMove
    \/ HostMediumMove
    \/ HostNextMove
    \/ SearchApply
    \/ SearchUndo

SpecSearch == Init /\ [][NextSearch]_vars

(* A search runs to its end once called: get_best_move and minimax are      *)
(* synchronous loops, lib.rs 157-165 and 200-210, each step of which is     *)
(* taken as soon as it can be.                                              *)
FairBestMove ==
    /\ stack = <<>>
    /\ CellsLeft <= MaxFairCells
    /\ Call_get_best_move

NextFair == HostMove \/ FairBestMove \/ SearchApply \/ SearchUndo

SpecSearchFair ==
    Init /\ [][NextFair]_vars /\ WF_vars(SearchApply) /\ WF_vars(SearchUndo)

(***************************************************************************)
(* The claims. A full scan of the board, as the specification words it:    *)
(* the eight lines, and a line held by three marks of one player.          *)
(***************************************************************************)
Lines == {{0, 1, 2}, {3, 4, 5}, {6, 7, 8}, {0, 3, 6}, {1, 4, 7}, {2, 5, 8},
          {0, 4, 8}, {2, 4, 6}}
HoldsLine(m, player) == \E l \in Lines : \A c \in l : m[c] = player
other(player) == IF player = X THEN O ELSE X

(* C1: from a fresh board with starting player X or O, after any successful *)
(* make_move calls, status is RESULTED exactly when some line holds three   *)
(* equal marks of X or of O, and winner is then the mark of such a line.    *)
(* Stated as the claim has it; the code lets play go on after a win.        *)
C1_ResultedIffLine ==
    start_player \in {X, O} =>
        /\ status = RESULTED <=> (HoldsLine(matrix, X) \/ HoldsLine(matrix, O))
        /\ status = RESULTED => (winner \in {X, O} /\ HoldsLine(matrix, winner))

(* C2: in a game from a fresh board (starting player X or O) whose moves    *)
(* are all played while status is INPROGRESS, every successful move leaves  *)
(* status and winner as a full scan of the board gives them: RESULTED with  *)
(* the player who just moved as winner exactly when that player now holds a *)
(* line, else DRAW exactly when it was the 9th move, else INPROGRESS.       *)
C2_StatusIsFullScan ==
    [][(start_player \in {X, O} /\ moves' # moves /\ overtime' = 0) =>
          IF HoldsLine(matrix', turn)
          THEN status' = RESULTED /\ winner' = turn
          ELSE IF Len(moves') = 9 THEN status' = DRAW
          ELSE status' = INPROGRESS]_vars

(* The game of the specification: X wins with its third mark, moves 0,3,1,4,2. *)
C2_Witness ==
    /\ overtime = 0
    /\ moves = <<0, 3, 1, 4, 2>>
    /\ status = RESULTED
    /\ winner = X

(* C5: in every reachable state make_move(p) with p in the history returns  *)
(* the position-filled error and leaves the board as it was.                *)
C5_FilledRejected ==
    \A p \in Cells :
        (\E i \in DOMAIN moves : moves[i] = p) =>
            make_move(Board, p) = [board |-> Board, result |-> PositionFilled]

(* A full board: the call is rejected for the cell played first and last. *)
C5_Witness ==
    /\ Len(moves) = 9
    /\ make_move(Board, moves[1]).result = PositionFilled
    /\ make_move(Board, moves[9]).result = PositionFilled

(* C6: in every reachable state make_move(p) with p > 8 returns the         *)
(* illegal-position error and leaves the board as it was, also on a full    *)
(* board and after the game is over.                                        *)
C6_OutOfRangeRejected ==
    \A p \in (LastCell + 1)..MaxPosition :
        make_move(Board, p) = [board |-> Board, result |-> IllegalPosition]

(* A full board of a finished game, where position 9 is still rejected as   *)
(* out of range.                                                            *)
C6_Witness ==
    /\ Len(moves) = 9
    /\ status = RESULTED
    /\ make_move(Board, LastCell + 1).result = IllegalPosition

(* C7: a successful make_move(p) writes the turn it found into matrix[p],   *)
(* appends p to moves, flips turn to the other player and leaves the other  *)
(* cells and difficulty alone. Stated as the claim has it, for every board  *)
(* the constructor makes.                                                   *)
C7_MoveEffect ==
    [][moves' # moves =>
          LET p == ret'.val IN
          /\ p \in Cells
          /\ \A i \in DOMAIN moves : moves[i] # p
          /\ matrix' = [matrix EXCEPT ![p] = turn]
          /\ moves' = Append(moves, p)
          /\ turn' \in {X, O} \ {turn}
          /\ difficulty' = difficulty]_vars

(* C8: from a fresh board with starting player X or O, turn is the starting *)
(* player after an even number of successful make_move calls and the other  *)
(* player after an odd number; a call that fails leaves turn as it is.      *)
C8_TurnAlternates ==
    /\ start_player \in {X, O} =>
           turn = (IF parity = 0 THEN start_player ELSE other(start_player))
    /\ \A p \in 0..MaxPosition :
           make_move(Board, p).result # "Ok" => make_move(Board, p).board.turn = turn

(* Nine successful calls from a board that O started: it is X's turn. *)
C8_Witness ==
    /\ start_player = O
    /\ Len(moves) = 9
    /\ parity = 1
    /\ turn = X

(* C9: from a fresh board with starting player X or O, after any successful *)
(* make_move calls, status is DRAW exactly when all nine cells are taken    *)
(* and no line holds three equal marks. Stated as the claim has it.         *)
C9_DrawIffFullNoLine ==
    start_player \in {X, O} =>
        (status = DRAW <=>
            /\ \A c \in Cells : matrix[c] # EMPTY
            /\ ~HoldsLine(matrix, X)
            /\ ~HoldsLine(matrix, O))

(* C10: after N successful make_move calls on a fresh board (starting       *)
(* player X or O), each undo_move leaves matrix, moves, turn and status as  *)
(* they were just before the move it takes back, and N of them leave the    *)
(* matrix all EMPTY, no moves, the starting player's turn and INPROGRESS.   *)
C10_UndoRestores ==
    (start_player \in {X, O} /\ ret.op = "undo_move") =>
        /\ Snapshot(Board) = ret.val
        /\ trail = <<>> =>
               /\ matrix = [c \in Cells |-> EMPTY]
               /\ moves = <<>>
               /\ turn = start_player
               /\ status = INPROGRESS

(* A won game, taken back move by move to the empty board. *)
C10_Witness ==
    /\ start_player \in {X, O}
    /\ ret.op = "undo_move"
    /\ trail = <<>>
    /\ winner # EMPTY

(* C3: in a game from the empty board with difficulty DIFFICULT, where one  *)
(* side plays the index get_best_move returns and the other side plays any  *)
(* legal move, and play stops once status is not INPROGRESS, the game never *)
(* ends RESULTED with the other side as winner; with both sides on          *)
(* get_best_move it ends DRAW. The engine side moves first or second.       *)
C3_EngineNeverLoses ==
    (stack = <<>> /\ status # INPROGRESS) =>
        /\ status = RESULTED => other(winner) \in free
        /\ free = {} => status = DRAW

(* A finished game in which the engine moved second, every one of its      *)
(* moves the index get_best_move returned, and won against free play.       *)
C3_Witness ==
    /\ stack = <<>>
    /\ free = {X}
    /\ ret.op = "make_move"
    /\ status = RESULTED
    /\ winner = O

(* C4: on a board of legal play whose status is INPROGRESS, the board after *)
(* get_best_move returns equals the board before the call in all six        *)
(* fields. Stated as the claim has it; the search leaves winner behind.     *)
C4_BoardAsBefore ==
    (stack = <<>> /\ ret.op = "get_best_move") => Board = saved[1]

(* C11: on any reachable board with at least one EMPTY cell, whatever the   *)
(* random draws, get_random_move and get_medium_move return an index in     *)
(* 0..8 of a cell that was EMPTY when they were called, so that a following *)
(* make_move of that index succeeds. get_medium_move returns what           *)
(* get_best_move or get_random_move returned. Stated as the claim has it,   *)
(* for every board the constructor makes.                                   *)
C11_ReturnsPlayableCell ==
    (/\ stack = <<>>
     /\ ret.op \in {"get_random_move", "get_best_move"}
     /\ \E c \in Cells : saved[1].matrix[c] = EMPTY) =>
        /\ ret.val \in Cells
        /\ saved[1].matrix[ret.val] = EMPTY
        /\ make_move(Board, ret.val).result = "Ok"

(* C12: in every state reachable from a fresh board (starting player X or   *)
(* O) by make_move, undo_move and the search, the states inside minimax     *)
(* included, the length of moves is the number of non-EMPTY cells, moves    *)
(* holds no index twice, and a cell is non-EMPTY exactly when its index is  *)
(* in moves.                                                                *)
C12_HistoryMatchesCells ==
    start_player \in {X, O} =>
        /\ Len(moves) = Cardinality({c \in Cells : matrix[c] # EMPTY})
        /\ \A i, j \in DOMAIN moves : i # j => moves[i] # moves[j]
        /\ \A c \in Cells : matrix[c] # EMPTY <=> \E i \in DOMAIN moves : moves[i] = c

(* Inside minimax, three calls deep, on a board the search has filled. *)
C12_Witness ==
    /\ start_player \in {X, O}
    /\ Len(stack) >= 3
    /\ Len(moves) = 9
    /\ Len(saved[1].moves) < 7

(* C13, as claimed: for each candidate of get_best_move the perspective     *)
(* player passed to minimax is the player who made the candidate move (the  *)
(* turn before the candidate was applied). The player passed shows as the   *)
(* mover of the minimax call that enters its loop, and as the sign of the   *)
(* score when the candidate ends the game.                                  *)
C13_PerspectiveIsMover ==
    [][(Len(stack) = 1 /\ retval = <<>>) =>
          /\ Len(stack') = 2 => stack'[2].mover = turn
          /\ (retval' # <<>> /\ status' = RESULTED) =>
                 retval'[1] = (IF winner' # turn THEN 1 ELSE -1)]_vars

(* C13, amended: for each candidate of get_best_move the perspective player *)
(* passed to minimax is the value turn has after the candidate was applied  *)
(* (with turn X or O: the opponent of the player who made the candidate     *)
(* move).                                                                   *)
C13_PerspectiveIsTurnAfter ==
    [][(Len(stack) = 1 /\ retval = <<>>) =>
          /\ Len(stack') = 2 => stack'[2].mover = turn'
          /\ (retval' # <<>> /\ status' = RESULTED) =>
                 retval'[1] = (IF winner' # turn' THEN 1 ELSE -1)]_vars

(* get_best_move has applied its first candidate and minimax has entered    *)
(* its loop with the opponent of the candidate's mover as perspective.      *)
C13_Witness ==
    /\ Len(stack) = 2
    /\ retval = <<>>
    /\ stack[2].i = 1
    /\ turn \in {X, O}
    /\ saved[1].turn = other(turn)
    /\ stack[2].mover = turn

(* The localized rule of the specification for the cell c played last:      *)
(* three equal non-EMPTY marks in c's row, or in c's column, or on the main *)
(* diagonal when c lies on it, or on the anti-diagonal when c lies on it.   *)
ThreeEqual(m, l) == \E player \in {X, O} : \A c \in l : m[c] = player
LocalRule(m, c) ==
    \/ ThreeEqual(m, {3 * (c \div 3), 3 * (c \div 3) + 1, 3 * (c \div 3) + 2})
    \/ ThreeEqual(m, {c % 3, (c % 3) + 3, (c % 3) + 6})
    \/ c \in {0, 4, 8} /\ ThreeEqual(m, {0, 4, 8})
    \/ c \in {2, 4, 6} /\ ThreeEqual(m, {2, 4, 6})

(* C14: after every make_move that leaves a non-empty history, on any       *)
(* reachable board (play after a win included), status is RESULTED exactly  *)
(* when the localized rule holds for the last cell of the history; a        *)
(* diagonal the last cell is not on never gives RESULTED. Stated as the     *)
(* claim has it, here for the boards started by X or O.                     *)
C14_StatusIsLocalRule ==
    (start_player \in {X, O} /\ moves # <<>>) =>
        (status = RESULTED <=> LocalRule(matrix, moves[Len(moves)]))

(* The greatest score get_best_move got for a candidate, and the candidates *)
(* that got it.                                                             *)
MaxScore == CHOOSE v \in {scores[i].score : i \in DOMAIN scores} :
                \A i \in DOMAIN scores : scores[i].score <= v
BestCells == {scores[i].mv : i \in {j \in DOMAIN scores : scores[j].score = MaxScore}}

(* C15: on an in-progress board get_best_move scores every EMPTY cell once  *)
(* and returns the smallest index among the EMPTY cells whose minimax score *)
(* is the greatest; a later cell with an equal score never replaces an      *)
(* earlier one. On the empty board the index returned is always the same    *)
(* one, 0.                                                                  *)
C15_SmallestBestCell ==
    (stack = <<>> /\ ret.op = "get_best_move" /\ saved[1].status = INPROGRESS) =>
        /\ {scores[i].mv : i \in DOMAIN scores} =
               {c \in Cells : saved[1].matrix[c] = EMPTY}
        /\ Len(scores) = Cardinality({c \in Cells : saved[1].matrix[c] = EMPTY})
        /\ ret.val \in BestCells
        /\ \A c \in BestCells : ret.val <= c
        /\ saved[1].moves = <<>> => ret.val = 0

(* get_best_move has returned on a board where several cells share the      *)
(* greatest score and some cell has a smaller one.                          *)
C15_Witness ==
    /\ stack = <<>>
    /\ ret.op = "get_best_move"
    /\ saved[1].status = INPROGRESS
    /\ Cardinality(BestCells) >= 2
    /\ \E i \in DOMAIN scores : scores[i].score < MaxScore
    /\ \A c \in BestCells : ret.val <= c

(* C16: when get_best_move is called on a reachable board with an EMPTY     *)
(* cell, every minimax call of the search returns -1, 0 or 1, never a       *)
(* sentinel, so the fallback to index 0 is not taken (some candidate's      *)
(* score exceeds -1000) and the index returned is a cell that was EMPTY     *)
(* when get_best_move was called.                                           *)
C16_NoSentinelReturned ==
    /\ (stack # <<>> /\ retval # <<>>) => retval[1] \in {-1, 0, 1}
    /\ (/\ stack = <<>>
        /\ ret.op = "get_best_move"
        /\ \E c \in Cells : saved[1].matrix[c] = EMPTY) =>
           /\ scores # <<>>
           /\ \A i \in DOMAIN scores : scores[i].score \in {-1, 0, 1}
           /\ ret.val \in Cells
           /\ saved[1].matrix[ret.val] = EMPTY

(* get_best_move has returned a cell other than 0 although cell 0 was       *)
(* EMPTY, having seen candidates that win and candidates that lose.         *)
C16_Witness ==
    /\ stack = <<>>
    /\ ret.op = "get_best_move"
    /\ saved[1].matrix[0] = EMPTY
    /\ ret.val # 0
    /\ \E i \in DOMAIN scores : scores[i].score = 1
    /\ \E i \in DOMAIN scores : scores[i].score = -1

(* C17: get_next_move (each difficulty) and get_best_move, called on a      *)
(* board whose status is RESULTED or DRAW, end in a defined failure and     *)
(* never return a cell index; on a full board they never return the index   *)
(* of an occupied cell. Stated as the claim has it, here for the boards     *)
(* started by X or O: an index is returned only for an in-progress board.   *)
C17_NoIndexOnFinishedBoard ==
    (/\ start_player \in {X, O}
     /\ stack = <<>>
     /\ ret.op \in {"get_best_move", "get_random_move"}) =>
        saved[1].status = INPROGRESS

(* The make_move calls of the running search that are not yet undone: one   *)
(* for each call of minimax that has not returned, and one more when a      *)
(* score has come back and its candidate is still on the board.             *)
Depth == IF stack = <<>> THEN 0
         ELSE IF retval # <<>> THEN Len(stack) ELSE Len(stack) - 1
EmptyAtCall == Cardinality({c \in Cells : saved[1].matrix[c] = EMPTY})

(* C18: every call of get_best_move on a reachable board terminates; while  *)
(* it runs, the make_move calls not yet undone are never more than the      *)
(* cells that were EMPTY at call time, so never more than 9; every          *)
(* make_move of the search is followed by one undo_move before the call     *)
(* that made it returns (a step of the search either applies a candidate,   *)
(* one deeper, or undoes it, one less deep; on boards started by X or O the *)
(* history is longer than at call time by exactly the depth, and as at call *)
(* time on return); and undo_move is never called with an empty history.    *)
C18_SearchTerminates ==
    /\ [](stack # <<>> => (Depth <= EmptyAtCall /\ EmptyAtCall <= 9))
    /\ []((stack # <<>> /\ retval # <<>>) => moves # <<>>)
    /\ []((stack # <<>> /\ start_player \in {X, O}) =>
             Len(moves) = Len(saved[1].moves) + Depth)
    /\ []((stack = <<>> /\ ret.op = "get_best_move" /\ start_player \in {X, O}) =>
             moves = saved[1].moves)
    /\ [][stack # <<>> =>
             IF retval = <<>> THEN Depth' = Depth + 1 ELSE Depth' = Depth - 1]_vars
    /\ (stack # <<>>) ~> (stack = <<>> /\ ret.op = "get_best_move")

(* The search is as deep as the cells that were EMPTY when get_best_move    *)
(* was called, as many as the model has there.                              *)
C18_Witness ==
    /\ stack # <<>>
    /\ EmptyAtCall = MaxFairCells
    /\ Depth = EmptyAtCall

(* C19: for every board new(start_player, difficulty) makes from any value  *)
(* of Player, and in every state reachable from it, turn is X or O, never   *)
(* EMPTY, so no cell of the history holds EMPTY. Stated as the claim has    *)
(* it.                                                                      *)
C19_TurnIsXorO ==
    /\ turn \in {X, O}
    /\ \A i \in DOMAIN moves : matrix[moves[i]] # EMPTY
====
